---- MODULE Spec2Model ----
(***************************************************************************)
(* A model of dsk2dc.py: conversion of a raw Macintosh disk image into a   *)
(* Disk Copy 4.2 image, optionally wrapped in MacBinary.                   *)
(*                                                                         *)
(* Representation choices                                                  *)
(*  - A byte string is a sequence of integers in 0..255.                   *)
(*  - A str is a sequence of code points.                                  *)
(*  - The contents of a disk image (hundreds of kilobytes) are a "blob":   *)
(*    [head |-> bytes, pad |-> n] stands for head followed by n zero       *)
(*    bytes.  Everything the program writes is recorded as a blob.         *)
(*  - TLC integers are 32-bit signed.  Python integers that can exceed     *)
(*    2^31-1 (the checksum accumulator, the Macintosh timestamp) are       *)
(*    vectors of BigLimbs digits in base 2^16, least significant first (Big).*)
(*  - A Python call that may raise is a record [err, val]: err = "none"    *)
(*    and val the returned value, or err the exception and val = <<>>.     *)
(***************************************************************************)
EXTENDS Integers, Sequences, FiniteSets, TLC

VARIABLES
  pc,        \* position of the program: "main", "l132" .. "l137" (lines of to_file), "exit"
  clock,     \* environment: what int(time.time()) returns (Big)
  file,      \* environment: contents of the input file (blob)
  args,      \* parsed command line: [filename, has_name, name, macbinary]
  image,     \* the DiskImage built by from_file: [data, name, encoding, format_byte]
  dc42_hdr,  \* local variable dc42_header of to_file
  fp,        \* the output file: "unopened", "open", "closed"
  out,       \* the sequence of values written to the output file (blobs)
  err,       \* the exception that ended the run, or "none"
  call,      \* harness for the pure functions: the call made
  ret        \* harness for the pure functions: what the call returned

vars == <<pc, clock, file, args, image, dc42_hdr, fp, out, err, call, ret>>
progvars == <<pc, clock, file, args, image, dc42_hdr, fp, out, err>>

----------------------------------------------------------------------------
(* Bounds of the model *)

BigLimbs == 4       \* 16-bit digits kept of a Big; no value of the program needs more than 63 bits
MaxLen == 3         \* longest byte string fed to CRC16 and pad_bytes by the harness
MaxWords == 2       \* most 16-bit words fed to dc42_checksum by the harness
MaxDataLen == 260   \* longest data length fed to mb_footer by the harness

----------------------------------------------------------------------------
(* Results of calls that may raise *)

Ok(v) == [err |-> "none", val |-> v]
Raise(e) == [err |-> e, val |-> <<>>]

Zeros(n) == [i \in 1..n |-> 0]

\* the element of a singleton.  The({F(x) : x \in {e}}) is F(e) with e
\* evaluated before F is applied: a loop written this way computes its
\* accumulator at every iteration, as the program does, where TLC would
\* otherwise pass it on unevaluated.
The(S) == CHOOSE r \in S : TRUE

----------------------------------------------------------------------------
(* Python integers on small values: the operators ^, |, & *)

RECURSIVE XOR(_, _)
XOR(a, b) ==
  IF a = 0 THEN b
  ELSE IF b = 0 THEN a
  ELSE 2 * XOR(a \div 2, b \div 2) + ((a + b) % 2)

RECURSIVE OR(_, _)
OR(a, b) ==
  IF a = 0 THEN b
  ELSE IF b = 0 THEN a
  ELSE 2 * OR(a \div 2, b \div 2) + (IF (a % 2) + (b % 2) > 0 THEN 1 ELSE 0)

RECURSIVE AND(_, _)
AND(a, b) ==
  IF a = 0 \/ b = 0 THEN 0
  ELSE 2 * AND(a \div 2, b \div 2) + ((a % 2) * (b % 2))

----------------------------------------------------------------------------
(* Python integers on large values: Big = BigLimbs digits in base 2^16,    *)
(* least significant first                                                 *)

\* the Big f as an explicit tuple (TLC keeps [i \in S |-> e] unevaluated)
Limbs(f) == SubSeq(f, 1, BigLimbs)

\* digit j of a, zero outside 1..BigLimbs
Limb(a, j) == IF j >= 1 /\ j <= BigLimbs THEN a[j] ELSE 0

\* the Big of a natural number below 2^31
BigOfInt(n) ==
  Limbs([i \in 1..BigLimbs |-> IF i = 1 THEN n % 65536 ELSE IF i = 2 THEN n \div 65536 ELSE 0])

\* the Big hi * 2^16 + lo, for hi and lo below 2^16
BigOfHalves(hi, lo) ==
  Limbs([i \in 1..BigLimbs |-> IF i = 1 THEN lo ELSE IF i = 2 THEN hi ELSE 0])

\* the carry into digit i of a + b
RECURSIVE Carry(_, _, _)
Carry(a, b, i) ==
  IF i = 1 THEN 0 ELSE (a[i - 1] + b[i - 1] + Carry(a, b, i - 1)) \div 65536

BigAdd(a, b) == Limbs([i \in 1..BigLimbs |-> (a[i] + b[i] + Carry(a, b, i)) % 65536])
BigAnd(a, b) == Limbs([i \in 1..BigLimbs |-> AND(a[i], b[i])])
BigOr(a, b) == Limbs([i \in 1..BigLimbs |-> OR(a[i], b[i])])

\* a >> k
BigShr(a, k) ==
  LET q == k \div 16
      r == k % 16
  IN  Limbs([i \in 1..BigLimbs |->
               (Limb(a, i + q) \div (2^r)) + (Limb(a, i + q + 1) % (2^r)) * (2^(16 - r))])

\* a << k, for a value that fits in BigLimbs digits
BigShl(a, k) ==
  LET q == k \div 16
      r == k % 16
  IN  Limbs([i \in 1..BigLimbs |->
               ((Limb(a, i - q) * (2^r)) % 65536) + (Limb(a, i - q - 1) \div (2^(16 - r)))])

\* byte j (0 = least significant) of a Big
BigByte(a, j) ==
  IF j % 2 = 0 THEN a[(j \div 2) + 1] % 256 ELSE a[(j \div 2) + 1] \div 256

\* value below 2^32 ?
BigFits32(a) == \A i \in 3..BigLimbs : a[i] = 0

----------------------------------------------------------------------------
(* struct.pack, big-endian ('>'), one operator per format character *)

pack_B(n) == IF n >= 0 /\ n <= 255 THEN Ok(<<n>>) ELSE Raise("struct_error")

pack_H(n) ==
  IF n >= 0 /\ n <= 65535 THEN Ok(<<n \div 256, n % 256>>) ELSE Raise("struct_error")

\* 'L' of a Big
pack_L(a) ==
  IF BigFits32(a)
  THEN Ok(<<BigByte(a, 3), BigByte(a, 2), BigByte(a, 1), BigByte(a, 0)>>)
  ELSE Raise("struct_error")

\* 'ks': the byte string truncated or null-padded to k bytes
pack_s(k, b) ==
  Ok([i \in 1..k |-> IF i <= Len(b) THEN b[i] ELSE 0])

\* 'kx': k pad bytes
pack_x(k) == Ok(Zeros(k))

RECURSIVE Concat(_)
Concat(ss) == IF ss = <<>> THEN <<>> ELSE Head(ss) \o Concat(Tail(ss))

\* struct.pack of a list of fields: struct.error if any value is out of range
pack(fields) ==
  IF \E i \in 1..Len(fields) : fields[i].err # "none"
  THEN Raise("struct_error")
  ELSE Ok(Concat([i \in 1..Len(fields) |-> fields[i].val]))

----------------------------------------------------------------------------
(* DISK_TYPES *)

\* variant: the entries of the two 3.5" double-density sizes exchanged
DISK_TYPES_swapped ==
  (409600 :> <<0, 2>>) @@ (819200 :> <<2, 34>>) @@
  (737280 :> <<1, 34>>) @@ (1474560 :> <<3, 34>>)

DISK_TYPES ==
  (409600 :> <<0, 2>>) @@ (819200 :> <<1, 34>>) @@
  (737280 :> <<2, 34>>) @@ (1474560 :> <<3, 34>>)

----------------------------------------------------------------------------
(* class CRC16: the object is [poly, reg] *)

CRC16_init == [poly |-> 4129, reg |-> 0]

\* variant: the top bit is tested after the shift instead of before it
CRC16_shift_late(poly, reg) ==
  XOR(AND(reg * 2, 65535), IF AND(AND(reg * 2, 65535), 32768) # 0 THEN poly ELSE 0)

\* line 30, one iteration of the inner loop
CRC16_shift(poly, reg) ==
  XOR(AND(reg * 2, 65535), IF AND(reg, 32768) # 0 THEN poly ELSE 0)

RECURSIVE CRC16_shifts(_, _, _)
CRC16_shifts(poly, reg, i) ==
  IF i = 0 THEN reg
  ELSE The({CRC16_shifts(poly, reg_, i - 1) : reg_ \in {CRC16_shift(poly, reg)}})

\* lines 29-30, the body of the loop over the bytes
CRC16_byte(poly, reg, byte) == CRC16_shifts(poly, XOR(reg, byte * 256), 8)

\* the loop of update over data[lo..hi], as the loop over the first half of
\* the range followed by the loop over the second half
RECURSIVE CRC16_loop(_, _, _, _, _)
CRC16_loop(poly, reg, data, lo, hi) ==
  IF lo > hi THEN reg
  ELSE IF lo = hi THEN CRC16_byte(poly, reg, data[lo])
  ELSE LET mid == (lo + hi) \div 2
       IN  The({CRC16_loop(poly, reg_, data, mid + 1, hi) :
                  reg_ \in {CRC16_loop(poly, reg, data, lo, mid)}})

CRC16_update(self, data) ==
  [self EXCEPT !.reg = CRC16_loop(self.poly, self.reg, data, 1, Len(data))]

CRC16_get_value(self) == self.reg

----------------------------------------------------------------------------
(* dc42_checksum *)

\* 0xFFFFFFFF
Mask32 == Limbs([i \in 1..BigLimbs |-> IF i <= 2 THEN 65535 ELSE 0])

\* variant: a shift right where the program rotates (no "| (c << 31)")
dc42_word_shift(c, hi, lo) ==
  The({ BigAnd(BigShr(c2, 1), Mask32) :
        c2 \in {BigAnd(BigAdd(c, BigOfInt(OR(hi * 256, lo))), Mask32)} })

\* lines 40-43, the body of the loop, for the word (hi << 8) | lo
dc42_word(c, hi, lo) ==
  The({ BigAnd(BigOr(BigShr(c2, 1), BigShl(c2, 31)), Mask32) :
        c2 \in {BigAnd(BigAdd(c, BigOfInt(OR(hi * 256, lo))), Mask32)} })

RECURSIVE dc42_loop(_, _, _)
dc42_loop(c, data, idx) ==
  IF idx > Len(data) THEN Ok(c)
  ELSE IF idx + 1 > Len(data) THEN Raise("IndexError")
  ELSE The({dc42_loop(c_, data, idx + 2) : c_ \in {dc42_word(c, data[idx], data[idx + 1])}})

\* dc42_checksum of a byte string
dc42_checksum(data) == dc42_loop(BigOfInt(0), data, 1)

RECURSIVE dc42_zero_words(_, _)
dc42_zero_words(c, k) ==
  IF k = 0 THEN c
  ELSE The({dc42_zero_words(c_, k - 1) : c_ \in {dc42_word(c, 0, 0)}})

\* dc42_checksum of a blob with an even number of bytes in its head: the loop
\* over the head, then over the pad.  A zero word adds nothing and rotates the
\* 32-bit accumulator by one bit, so 32 zero words leave it unchanged and the
\* loop over the pad is run for its number of words modulo 32.
dc42_checksum_blob(d) ==
  The({ IF h.err # "none" THEN h
        ELSE IF d.pad % 2 = 1 THEN Raise("IndexError")
        ELSE Ok(dc42_zero_words(h.val, (d.pad \div 2) % 32)) :
        h \in {dc42_checksum(d.head)} })

----------------------------------------------------------------------------
(* mac_timestamp *)

\* 2082844800 = 31781 * 2^16 + 45184
MacEpochOffset == BigOfHalves(31781, 45184)

mac_timestamp(now) == BigAdd(now, MacEpochOffset)

----------------------------------------------------------------------------
(* pad_bytes, with pad_byte = 0 *)

\* variant: a string of exactly pad_length bytes is rejected too
pad_bytes_strict(b, pad_length) ==
  IF Len(b) >= pad_length THEN Raise("name_too_long")
  ELSE Ok(b \o Zeros(pad_length - Len(b)))

pad_bytes(b, pad_length) ==
  IF Len(b) > pad_length THEN Raise("name_too_long")
  ELSE Ok(b \o Zeros(pad_length - Len(b)))

----------------------------------------------------------------------------
(* Blobs *)

Blob(b) == [head |-> b, pad |-> 0]
BlobLen(d) == Len(d.head) + d.pad

----------------------------------------------------------------------------
(* Library functions used by from_file, on strs *)

LastIndexOf(s, ch) ==
  IF \E i \in 1..Len(s) : s[i] = ch
  THEN CHOOSE i \in 1..Len(s) : s[i] = ch /\ \A j \in (i + 1)..Len(s) : s[j] # ch
  ELSE 0

\* the second component of os.path.split(p)
ospath_split_tail(p) == SubSeq(p, LastIndexOf(p, 47) + 1, Len(p))

\* the first component of os.path.splitext(p): the last dot starts the
\* extension unless only dots precede it in the last path component
ospath_splitext_root(p) ==
  LET sep == LastIndexOf(p, 47)
      dot == LastIndexOf(p, 46)
  IN  IF dot > sep /\ \E j \in (sep + 1)..(dot - 1) : p[j] # 46
      THEN SubSeq(p, 1, dot - 1)
      ELSE p

\* str.encode('ascii', 'replace'): '?' for what ASCII cannot encode
encode_ascii_replace(s) == [i \in 1..Len(s) |-> IF s[i] < 128 THEN s[i] ELSE 63]

----------------------------------------------------------------------------
(* class DiskImage *)

DiskImage(data, name, encoding, format_byte) ==
  [data |-> data, name |-> name, encoding |-> encoding, format_byte |-> format_byte]

\* from_file, given the contents f of the file named filename
from_file(filename, has_name, name, f) ==
  LET data_size == BlobLen(f)
      str == IF has_name THEN name
             ELSE ospath_splitext_root(ospath_split_tail(filename))
  IN  IF data_size \notin DOMAIN DISK_TYPES THEN Raise("unsupported_size")
      ELSE Ok(DiskImage(f, encode_ascii_replace(str),
                        DISK_TYPES[data_size][1], DISK_TYPES[data_size][2]))

\* variant: the checksum is packed in the tag size field and zero in the
\* checksum field
dc42_header_fields_exchanged(self) ==
  The({
      IF name.err # "none" THEN name
      ELSE IF checksum.err # "none" THEN checksum
      ELSE pack(<< pack_B(Len(self.name)),
                   pack_s(63, name.val),
                   pack_L(BigOfInt(BlobLen(self.data))),
                   pack_L(checksum.val),
                   pack_L(BigOfInt(0)),
                   pack_L(BigOfInt(0)),
                   pack_B(self.encoding),
                   pack_B(self.format_byte),
                   pack_H(256) >>) :
      name \in {pad_bytes(self.name, 63)}, checksum \in {dc42_checksum_blob(self.data)} })

dc42_header(self) ==
  The({
      IF name.err # "none" THEN name
      ELSE IF checksum.err # "none" THEN checksum
      ELSE pack(<< pack_B(Len(self.name)),
                   pack_s(63, name.val),
                   pack_L(BigOfInt(BlobLen(self.data))),
                   pack_L(BigOfInt(0)),
                   pack_L(checksum.val),
                   pack_L(BigOfInt(0)),
                   pack_B(self.encoding),
                   pack_B(self.format_byte),
                   pack_H(256) >>) :
      name \in {pad_bytes(self.name, 63)}, checksum \in {dc42_checksum_blob(self.data)} })

\* the first struct.pack of mb_header, lines 98-120
mb_header_124(self, dc42_header_, timestamp) ==
  LET name == pad_bytes(self.name, 63)
  IN  IF name.err # "none" THEN name
      ELSE pack(<< pack_B(0),
                   pack_B(Len(self.name)),
                   pack_s(63, name.val),
                   pack_s(4, <<100, 73, 109, 103>>),
                   pack_s(4, <<100, 67, 112, 121>>),
                   pack_B(0), pack_B(0),
                   pack_H(0), pack_H(0), pack_H(0),
                   pack_B(0), pack_B(0),
                   pack_L(BigOfInt(BlobLen(self.data) + Len(dc42_header_))),
                   pack_L(BigOfInt(0)),
                   pack_L(timestamp),
                   pack_L(timestamp),
                   pack_H(0),
                   pack_B(0),
                   pack_x(14),
                   pack_L(BigOfInt(0)),
                   pack_H(0),
                   pack_B(129),
                   pack_B(129) >>)

\* variant: the CRC is computed over the first 123 bytes only
mb_header_short_crc(self, dc42_header_, now) ==
  The({ IF retval.err # "none" THEN retval
        ELSE The({ IF tail.err # "none" THEN tail ELSE Ok(retval.val \o tail.val) :
                   tail \in {pack(<< pack_H(CRC16_get_value(CRC16_update(CRC16_init,
                                                SubSeq(retval.val, 1, 123)))),
                                     pack_H(0) >>)} }) :
        retval \in {mb_header_124(self, dc42_header_, mac_timestamp(now))} })

\* mb_header, when time.time() returns now
mb_header(self, dc42_header_, now) ==
  The({ IF retval.err # "none" THEN retval
        ELSE The({ IF tail.err # "none" THEN tail ELSE Ok(retval.val \o tail.val) :
                   tail \in {pack(<< pack_H(CRC16_get_value(CRC16_update(CRC16_init, retval.val))),
                                     pack_H(0) >>)} }) :
        retval \in {mb_header_124(self, dc42_header_, mac_timestamp(now))} })

\* variant: a whole block of padding when the length is already a multiple of 128
mb_footer_full_block(self, dc42_header_) ==
  Zeros(128 - ((BlobLen(self.data) + Len(dc42_header_)) % 128))

mb_footer(self, dc42_header_) ==
  Zeros(127 - ((BlobLen(self.data) + Len(dc42_header_) + 127) % 128))

----------------------------------------------------------------------------
(* Inputs *)

ByteSeqs(S, n) == UNION {[1..k -> S] : k \in 0..n}
Rep(ch, n) == [i \in 1..n |-> ch]

\* "Test"
StrTest == <<84, 101, 115, 116>>
\* ".dsk"
StrDotDsk == <<46, 100, 115, 107>>

Filenames ==
  { StrTest \o StrDotDsk,                 \* Test.dsk
    <<97, 46, 98, 47>> \o StrDotDsk,      \* a.b/.dsk
    Rep(65, 63) \o StrDotDsk,             \* 63 letters, then .dsk
    Rep(65, 64) \o StrDotDsk }            \* 64 letters, then .dsk

Names == { <<>>, StrTest, <<233, 65>>, Rep(66, 63), Rep(66, 64) }

NoArgs == [filename |-> <<>>, has_name |-> FALSE, name |-> <<>>, macbinary |-> FALSE]

Argvs ==
  { [filename |-> f, has_name |-> FALSE, name |-> <<>>, macbinary |-> m] :
      f \in Filenames, m \in BOOLEAN }
  \cup
  { [filename |-> StrTest \o StrDotDsk, has_name |-> TRUE, name |-> n, macbinary |-> m] :
      n \in Names, m \in BOOLEAN }

FileLengths == {0, 409599, 409600, 737280, 819200, 1474560, 1474562}
FileHeads == { <<>>, <<0, 1, 0, 2>> }

Files ==
  { [head |-> h, pad |-> l - Len(h)] :
      <<h, l>> \in {x \in FileHeads \X FileLengths : x[2] >= Len(x[1])} }

\* int(time.time()): 1700003840, 2212122495 and 2212122496 = 2^32 - 2082844800
Times ==
  { BigOfHalves(25940, 0), BigOfHalves(33754, 20351), BigOfHalves(33754, 20352) }

NoImage == DiskImage(Blob(<<>>), <<>>, 0, 0)
NoCall == [fn |-> "none", data |-> <<>>, n |-> 0, m |-> 0]

----------------------------------------------------------------------------
(* The program: main, with to_file one step per line *)

Init ==
  /\ pc = "main"
  /\ clock \in Times
  /\ file \in Files
  /\ args = NoArgs
  /\ image = NoImage
  /\ dc42_hdr = <<>>
  /\ fp = "unopened"
  /\ out = <<>>
  /\ err = "none"
  /\ call = NoCall
  /\ ret = Ok(<<>>)

\* lines 147-149: parse the arguments and build the image
main ==
  /\ pc = "main"
  /\ \E a \in Argvs :
       \E r \in {from_file(a.filename, a.has_name, a.name, file)} :
           /\ args' = a
           /\ IF r.err # "none"
              THEN /\ err' = r.err
                   /\ pc' = "exit"
                   /\ image' = image
              ELSE /\ err' = err
                   /\ pc' = "l132"
                   /\ image' = r.val
  /\ UNCHANGED <<clock, file, dc42_hdr, fp, out, call, ret>>

\* variant: the output is opened before the header is built
to_file_l132_opened_first ==
  /\ pc = "l132"
  /\ fp' = "open"
  /\ out' = <<>>
  /\ \E r \in {dc42_header(image)} :
       IF r.err # "none"
       THEN /\ err' = r.err
            /\ pc' = "exit"
            /\ dc42_hdr' = dc42_hdr
       ELSE /\ err' = err
            /\ pc' = "l133"
            /\ dc42_hdr' = r.val
  /\ UNCHANGED <<clock, file, args, image, call, ret>>

to_file_l132 ==
  /\ pc = "l132"
  /\ \E r \in {dc42_header(image)} :
       IF r.err # "none"
       THEN /\ err' = r.err
            /\ pc' = "exit"
            /\ dc42_hdr' = dc42_hdr
       ELSE /\ err' = err
            /\ pc' = "l133"
            /\ dc42_hdr' = r.val
  /\ UNCHANGED <<clock, file, args, image, fp, out, call, ret>>

to_file_l133 ==
  /\ pc = "l133"
  /\ fp' = "open"
  /\ out' = <<>>
  /\ pc' = "l134"
  /\ UNCHANGED <<clock, file, args, image, dc42_hdr, err, call, ret>>

to_file_l134 ==
  /\ pc = "l134"
  /\ IF args.macbinary
     THEN \E r \in {mb_header(image, dc42_hdr, clock)} :
            IF r.err # "none"
            THEN /\ err' = r.err
                 /\ fp' = "closed"
                 /\ pc' = "exit"
                 /\ out' = out
            ELSE /\ out' = Append(out, Blob(r.val))
                 /\ pc' = "l135"
                 /\ UNCHANGED <<err, fp>>
     ELSE /\ pc' = "l135"
          /\ UNCHANGED <<err, fp, out>>
  /\ UNCHANGED <<clock, file, args, image, dc42_hdr, call, ret>>

\* variant: the DC42 header is put in front of what was written
to_file_l135_in_front ==
  /\ pc = "l135"
  /\ out' = <<Blob(dc42_hdr)>> \o out
  /\ pc' = "l136"
  /\ UNCHANGED <<clock, file, args, image, dc42_hdr, fp, err, call, ret>>

to_file_l135 ==
  /\ pc = "l135"
  /\ out' = Append(out, Blob(dc42_hdr))
  /\ pc' = "l136"
  /\ UNCHANGED <<clock, file, args, image, dc42_hdr, fp, err, call, ret>>

to_file_l136 ==
  /\ pc = "l136"
  /\ out' = Append(out, image.data)
  /\ pc' = "l137"
  /\ UNCHANGED <<clock, file, args, image, dc42_hdr, fp, err, call, ret>>

to_file_l137 ==
  /\ pc = "l137"
  /\ out' = IF args.macbinary THEN Append(out, Blob(mb_footer(image, dc42_hdr))) ELSE out
  /\ fp' = "closed"
  /\ pc' = "exit"
  /\ UNCHANGED <<clock, file, args, image, dc42_hdr, err, call, ret>>

Next ==
  \/ main
  \/ to_file_l132
  \/ to_file_l133
  \/ to_file_l134
  \/ to_file_l135
  \/ to_file_l136
  \/ to_file_l137

Spec == Init /\ [][Next]_vars

----------------------------------------------------------------------------
(* The pure functions, each applied to inputs drawn from bounded sets *)

\* "123456789"
StrDigits == <<49, 50, 51, 52, 53, 54, 55, 56, 57>>

CrcInputs == ByteSeqs({0, 1, 128, 255}, MaxLen) \cup {StrDigits}
ChecksumInputs == ByteSeqs({0, 1, 2, 255}, 2 * MaxWords)
PadInputs == ByteSeqs({0, 65, 255}, MaxLen) \cup {Rep(65, 62), Rep(65, 63), Rep(65, 64)}
PadLengths == (-1..(MaxLen + 1)) \cup {62, 63, 64}
FooterDataLens == (0..MaxDataLen) \cup DOMAIN DISK_TYPES
FooterHeaderLens == {0, 1, 84, 127, 128}

FnInit ==
  /\ pc = "main"
  /\ clock = BigOfInt(0)
  /\ file = Blob(<<>>)
  /\ args = NoArgs
  /\ image = NoImage
  /\ dc42_hdr = <<>>
  /\ fp = "unopened"
  /\ out = <<>>
  /\ err = "none"
  /\ call = NoCall
  /\ ret = Ok(<<>>)

Call_CRC16 ==
  /\ call.fn = "none"
  /\ \E d \in CrcInputs :
       /\ call' = [fn |-> "CRC16", data |-> d, n |-> 0, m |-> 0]
       /\ ret' = Ok(CRC16_get_value(CRC16_update(CRC16_init, d)))
  /\ UNCHANGED progvars

Call_dc42_checksum ==
  /\ call.fn = "none"
  /\ \E d \in ChecksumInputs :
       /\ call' = [fn |-> "dc42_checksum", data |-> d, n |-> 0, m |-> 0]
       /\ ret' = dc42_checksum(d)
  /\ UNCHANGED progvars

Call_pad_bytes ==
  /\ call.fn = "none"
  /\ \E b \in PadInputs, n \in PadLengths :
       /\ call' = [fn |-> "pad_bytes", data |-> b, n |-> n, m |-> 0]
       /\ ret' = pad_bytes(b, n)
  /\ UNCHANGED progvars

Call_mb_footer ==
  /\ call.fn = "none"
  /\ \E n \in FooterDataLens, m \in FooterHeaderLens :
       /\ call' = [fn |-> "mb_footer", data |-> <<>>, n |-> n, m |-> m]
       /\ ret' = Ok(mb_footer(DiskImage([head |-> <<>>, pad |-> n], <<>>, 0, 0), Zeros(m)))
  /\ UNCHANGED progvars

FnNext ==
  \/ Call_CRC16
  \/ Call_dc42_checksum
  \/ Call_pad_bytes
  \/ Call_mb_footer

FnSpec == FnInit /\ [][FnNext]_vars

----------------------------------------------------------------------------
(* Reference computations the claims compare the program with *)

\* CRC-16/XMODEM on a register of 16 bits, most significant first
RefPoly == <<0, 0, 0, 1, 0, 0, 0, 0, 0, 0, 1, 0, 0, 0, 0, 1>>

RefXorByte(r, b) ==
  SubSeq([i \in 1..16 |-> IF i <= 8 THEN (r[i] + ((b \div (2^(8 - i))) % 2)) % 2 ELSE r[i]], 1, 16)

RefShift(r) ==
  SubSeq([i \in 1..16 |-> ((IF i < 16 THEN r[i + 1] ELSE 0) + r[1] * RefPoly[i]) % 2], 1, 16)

RECURSIVE RefShifts(_, _)
RefShifts(r, n) == IF n = 0 THEN r ELSE The({RefShifts(x, n - 1) : x \in {RefShift(r)}})

\* the register after the first k bytes of data
RECURSIVE RefReg(_, _)
RefReg(data, k) ==
  IF k = 0 THEN SubSeq(Zeros(16), 1, 16)
  ELSE The({RefShifts(RefXorByte(x, data[k]), 8) : x \in {RefReg(data, k - 1)}})

RECURSIVE RefValue(_, _)
RefValue(r, i) == IF i = 0 THEN 0 ELSE 2 * RefValue(r, i - 1) + r[i]

RefCRC(data) == RefValue(RefReg(data, Len(data)), 16)

\* the rotating checksum on a pair <<high 16 bits, low 16 bits>>
RefWord(c, w) ==
  LET sum == c[2] + w
      lo == sum % 65536
      hi == (c[1] + (sum \div 65536)) % 65536
  IN  <<(hi \div 2) + (lo % 2) * 32768, (lo \div 2) + (hi % 2) * 32768>>

\* the accumulator after the first k words of data
RECURSIVE RefFold(_, _)
RefFold(data, k) ==
  IF k = 0 THEN <<0, 0>>
  ELSE The({RefWord(x, data[2 * k - 1] * 256 + data[2 * k]) : x \in {RefFold(data, k - 1)}})

\* the big-endian value of four bytes of b starting at index i, as a pair of halves
BE32(b, i) == <<b[i] * 256 + b[i + 1], b[i + 2] * 256 + b[i + 3]>>

RecognizedSizes == {409600, 819200, 737280, 1474560}

RECURSIVE TotalLen(_)
TotalLen(blobs) == IF blobs = <<>> THEN 0 ELSE BlobLen(Head(blobs)) + TotalLen(Tail(blobs))

IsPrefix(p, q) == Len(p) <= Len(q) /\ p = SubSeq(q, 1, Len(p))

----------------------------------------------------------------------------
(* Claims *)

\* C1: a raw image is accepted iff its length is 409600, 819200, 737280 or
\* 1474560, and then gets (encoding, format byte) (0x00,0x02), (0x01,0x22),
\* (0x02,0x22), (0x03,0x22) respectively; any other length ends the run with
\* the unsupported-size error and no image.
C1_SizeClassification ==
  pc # "main" =>
    LET L == BlobLen(file)
    IN  /\ (err = "unsupported_size") <=> (L \notin RecognizedSizes)
        /\ err = "unsupported_size" => pc = "exit" /\ image = NoImage
        /\ L = 409600 => image.encoding = 0 /\ image.format_byte = 2
        /\ L = 819200 => image.encoding = 1 /\ image.format_byte = 34
        /\ L = 737280 => image.encoding = 2 /\ image.format_byte = 34
        /\ L = 1474560 => image.encoding = 3 /\ image.format_byte = 34
        /\ L \in RecognizedSizes => image.data = file

C1_Witness ==
  /\ pc = "exit" /\ err = "none"
  /\ BlobLen(file) = 737280 /\ image.encoding = 2 /\ image.format_byte = 34

\* C2: mb_footer returns N zero bytes, 0 <= N <= 127,
\* N = 127 - ((len(data) + len(dc42_header) + 127) mod 128), so that
\* 128 + len(dc42_header) + len(data) + N is a multiple of 128, and N = 0
\* exactly when len(data) + len(dc42_header) is a multiple of 128.
C2_FooterPadding ==
  call.fn = "mb_footer" =>
    LET N == Len(ret.val)
    IN  /\ ret.err = "none"
        /\ N >= 0 /\ N <= 127
        /\ N = 127 - ((call.n + call.m + 127) % 128)
        /\ (128 + call.m + call.n + N) % 128 = 0
        /\ (N = 0) <=> ((call.n + call.m) % 128 = 0)
        /\ \A i \in 1..N : ret.val[i] = 0

C2_Witness ==
  /\ call.fn = "mb_footer" /\ call.n = 409600 /\ call.m = 84
  /\ Len(ret.val) = 44

\* C3: a header produced by mb_header is 128 bytes, its bytes [124:126] are
\* the big-endian CRC16 (polynomial 0x1021, initial register 0) of its bytes
\* [0:124], and its bytes [126:128] are zero.
C3_HeaderCRC ==
  (pc = "l135" /\ args.macbinary) =>
    /\ Len(out) = 1
    /\ out[1].pad = 0
    /\ LET h == out[1].head
       IN  /\ Len(h) = 128
           /\ h[125] * 256 + h[126] =
                CRC16_get_value(CRC16_update([poly |-> 4129, reg |-> 0], SubSeq(h, 1, 124)))
           /\ h[127] = 0 /\ h[128] = 0

C3_Witness ==
  /\ pc = "l135" /\ args.macbinary /\ Len(out) = 1
  /\ Len(out[1].head) = 128
  /\ out[1].head[125] * 256 + out[1].head[126] # 0

\* C4: the writes of to_file are, in order and each once, dc42_header and
\* data without MacBinary (84 + len(data) bytes), and macbinary_header,
\* dc42_header, data, macbinary_footer with MacBinary, the header and the
\* footer being built from the dc42_header that is written; at every moment
\* what has been written is a prefix of that sequence.
C4_Expected ==
  IF args.macbinary
  THEN << Blob(mb_header_124(image, dc42_hdr, mac_timestamp(clock)).val),
          Blob(dc42_hdr), image.data, Blob(mb_footer(image, dc42_hdr)) >>
  ELSE << Blob(dc42_hdr), image.data >>

\* what was written, the MacBinary header without its CRC and filler
C4_Written ==
  IF args.macbinary /\ Len(out) >= 1 /\ Len(out[1].head) = 128
  THEN [out EXCEPT ![1] = Blob(SubSeq(out[1].head, 1, 124))]
  ELSE out

C4_AssemblyOrder ==
  /\ pc \in {"main", "l132", "l133"} => out = <<>>
  /\ pc \in {"l134", "l135", "l136", "l137"} \/ (pc = "exit" /\ fp = "closed") =>
       /\ dc42_hdr = dc42_header(image).val
       /\ Len(dc42_hdr) = 84
       /\ IsPrefix(C4_Written, C4_Expected)
       /\ args.macbinary /\ Len(out) >= 1 => Len(out[1].head) = 128 /\ out[1].pad = 0
  /\ pc = "l134" => Len(out) = 0
  /\ pc = "l135" => Len(out) = IF args.macbinary THEN 1 ELSE 0
  /\ pc = "l136" => Len(out) = IF args.macbinary THEN 2 ELSE 1
  /\ pc = "l137" => Len(out) = IF args.macbinary THEN 3 ELSE 2
  /\ (pc = "exit" /\ err = "none") =>
       /\ fp = "closed"
       /\ Len(out) = IF args.macbinary THEN 4 ELSE 2
       /\ ~args.macbinary => TotalLen(out) = 84 + BlobLen(image.data)
       /\ args.macbinary => TotalLen(out) % 128 = 0

C4_Witness ==
  /\ pc = "exit" /\ err = "none" /\ args.macbinary
  /\ Len(out) = 4 /\ out[2] = Blob(dc42_hdr) /\ out[3] = image.data
  /\ image.data.head # <<>>

\* C5: for a name of at most 63 bytes dc42_header returns 84 bytes: the name
\* length, the name followed by zero bytes up to byte 63, len(data) big-endian
\* at 64..67, zero at 68..71, the checksum of data at 72..75, zero at 76..79,
\* the encoding at 80, the format byte at 81, then 0x01 0x00; for all-zero
\* data the checksum field is zero.
C5_DC42Layout ==
  (pc \notin {"main", "l132"} /\ err # "unsupported_size" /\ err # "name_too_long") =>
    LET h == dc42_hdr
        n == Len(image.name)
        L == BlobLen(image.data)
        ck == dc42_checksum_blob(image.data).val
    IN  /\ n <= 63
        /\ Len(h) = 84
        /\ h[1] = n
        /\ \A i \in 1..63 : h[1 + i] = IF i <= n THEN image.name[i] ELSE 0
        /\ L = BlobLen(file)
        /\ h[65] = L \div 16777216
        /\ h[66] = (L \div 65536) % 256
        /\ h[67] = (L \div 256) % 256
        /\ h[68] = L % 256
        /\ \A i \in 69..72 : h[i] = 0
        /\ BE32(h, 73) = <<ck[2], ck[1]>>
        /\ image.data.head = <<>> => \A i \in 73..76 : h[i] = 0
        /\ image.data.head = <<0, 1, 0, 2>> => \E i \in 73..76 : h[i] # 0
        /\ \A i \in 77..80 : h[i] = 0
        /\ h[81] = image.encoding
        /\ h[82] = image.format_byte
        /\ h[83] = 1 /\ h[84] = 0

C5_Witness ==
  /\ pc = "exit" /\ err = "none" /\ ~args.macbinary
  /\ BlobLen(image.data) = 409600 /\ image.data.head = <<>>
  /\ image.name = StrTest
  /\ Len(dc42_hdr) = 84 /\ dc42_hdr[1] = 4 /\ SubSeq(dc42_hdr, 2, 5) = StrTest
  /\ TotalLen(out) = 409684

\* C6: pad_bytes(b, n) fails with the name-too-long error iff len(b) > n, and
\* otherwise returns exactly n bytes: b unchanged, then n - len(b) zero bytes.
C6_PadBytes ==
  call.fn = "pad_bytes" =>
    LET b == call.data
        n == call.n
    IN  /\ ret.err \in {"none", "name_too_long"}
        /\ (ret.err = "name_too_long") <=> (Len(b) > n)
        /\ ret.err = "none" =>
             /\ Len(ret.val) = n
             /\ SubSeq(ret.val, 1, Len(b)) = b
             /\ \A i \in (Len(b) + 1)..n : ret.val[i] = 0

C6_Witness ==
  /\ call.fn = "pad_bytes" /\ Len(call.data) = 63 /\ call.n = 63
  /\ ret.err = "none" /\ ret.val = call.data

\* C7: a run that ends in the unsupported-size or the name-too-long error has
\* not opened the output and has written nothing; no run writes some of the
\* output and then fails.
C7_NoPartialOutput ==
  /\ err \in {"unsupported_size", "name_too_long"} => fp = "unopened" /\ out = <<>>
  /\ err # "none" => out = <<>> /\ pc = "exit"

C7_Witness ==
  /\ pc = "exit" /\ err = "name_too_long" /\ args.macbinary
  /\ BlobLen(file) \in RecognizedSizes
  /\ fp = "unopened"

\* C8: for every value of the current Unix time mb_header completes, with
\* both timestamp fields the 4-byte big-endian encoding of the time plus
\* 2082844800 and the data-fork length field len(data) + len(dc42_header);
\* a conversion fails only with the unsupported-size or name-too-long error.
C8_TotalOverTime ==
  /\ err \in {"none", "unsupported_size", "name_too_long"}
  /\ (pc = "l135" /\ args.macbinary) =>
       LET h == out[1].head
           t == BigAdd(clock, BigOfHalves(31781, 45184))
       IN  /\ BE32(h, 92) = <<t[2], t[1]>>
           /\ BE32(h, 96) = <<t[2], t[1]>>
           /\ BE32(h, 84) = <<(BlobLen(image.data) + 84) \div 65536,
                               (BlobLen(image.data) + 84) % 65536>>

C10_CRC16 ==
  call.fn = "CRC16" =>
    LET d == call.data
    IN  /\ ret.err = "none"
        /\ ret.val = RefCRC(d)
        /\ \A k \in 0..Len(d) :
             CRC16_get_value(CRC16_update(CRC16_init, SubSeq(d, 1, k))) \in 0..65535
        /\ d = StrDigits => ret.val = 12739

C10_Witness ==
  /\ call.fn = "CRC16" /\ call.data = StrDigits /\ ret.val = 12739

====
